---- MODULE Spec2Model ----
(***************************************************************************)
(* CatAdvisor API: the request handlers of main.py over the schemas of     *)
(* schemas.py and a document store.                                        *)
(*                                                                         *)
(* Representation.  A Python value slot that may hold None is a sequence   *)
(* of length 0 (None) or 1 (the value).  A str is a tuple of one-character *)
(* strings, so that length, case folding and pattern matching are          *)
(* computed; an enum literal is a TLA+ string.  A float is an integer.     *)
(* A dict is a function from key strings to value slots.                   *)
(***************************************************************************)
EXTENDS Integers, Sequences, FiniteSets, TLC

\* db:      the document store, one sequence of documents per collection
\* nextOid: the identifier the store assigns to the next inserted document
\* req:     the request being served ([op |-> "none"] between requests)
\* resp:    the response to req
\* issued:  the successful creates answered so far, in order: the handler,
\*          the validated instance it was given and the id it returned
VARIABLES db, nextOid, req, resp, issued

vars == <<db, nextOid, req, resp, issued>>

\* Bound of the model: the number of documents the store may hold in total.
MaxDocs == 2

None == <<>>
Some(v) == <<v>>

Min2(a, b) == IF b < a THEN b ELSE a
Max2(a, b) == IF b > a THEN b ELSE a

------------------------------------------------------------------------------
\* Characters and case folding (str.lower, and the regex option "i").

UpperChars == <<"A","B","C","D","E","F","G","H","I","J","K","L","M",
                "N","O","P","Q","R","S","T","U","V","W","X","Y","Z">>
LowerChars == <<"a","b","c","d","e","f","g","h","i","j","k","l","m",
                "n","o","p","q","r","s","t","u","v","w","x","y","z">>

LowerChar(c) ==
    IF \E i \in 1..Len(UpperChars) : UpperChars[i] = c
    THEN LowerChars[CHOOSE i \in 1..Len(UpperChars) : UpperChars[i] = c]
    ELSE c

LowerStr(s) == [i \in 1..Len(s) |-> LowerChar(s[i])]

\* n copies of the character c.
Rep(c, n) == [i \in 1..n |-> c]

------------------------------------------------------------------------------
\* schemas.py: field declarations.  maxlen, ge, le are slots (None: no
\* constraint); vals is the set of a Literal; dflt is the default slot.

Field(kind, required, nullable, dflt) ==
    [kind |-> kind, required |-> required, nullable |-> nullable,
     dflt |-> dflt, maxlen |-> None, ge |-> None, le |-> None, vals |-> {}]

Required(kind)     == Field(kind, TRUE, FALSE, None)
Optional(kind)     == Field(kind, FALSE, TRUE, None)
Default(kind, d)   == Field(kind, FALSE, FALSE, Some(d))
MaxLength(fd, n)   == [fd EXCEPT !.maxlen = Some(n)]
Bounded(fd, lo, hi) == [fd EXCEPT !.ge = Some(lo), !.le = Some(hi)]
Literal(fd, vs)    == [fd EXCEPT !.vals = vs]

User ==
    [name |-> <<"U","s","e","r">>,
     fields |->
       [email      |-> Required("str"),
        nickname   |-> MaxLength(Required("str"), 40),
        avatar_url |-> Optional("url"),
        bio        |-> MaxLength(Optional("str"), 300),
        role       |-> Literal(Default("enum", "user"),
                               {"user", "volunteer", "moderator", "admin"}),
        points     |-> Default("int", 0),
        badges     |-> Default("list", <<>>),
        is_active  |-> Default("bool", TRUE)]]

Cat ==
    [name |-> <<"C","a","t">>,
     fields |->
       [name           |-> Optional("str"),
        description    |-> MaxLength(Optional("str"), 500),
        last_known_lat |-> Bounded(Optional("float"), -90, 90),
        last_known_lng |-> Bounded(Optional("float"), -180, 180),
        status         |-> Literal(Default("enum", "unknown"),
                                   {"unknown", "sterilized", "adopted", "injured"}),
        colony         |-> Optional("str"),
        photo_url      |-> Optional("url")]]

Sighting ==
    [name |-> <<"S","i","g","h","t","i","n","g">>,
     fields |->
       [cat_id     |-> Optional("str"),
        lat        |-> Bounded(Required("float"), -90, 90),
        lng        |-> Bounded(Required("float"), -180, 180),
        note       |-> MaxLength(Optional("str"), 400),
        photo_url  |-> Optional("url"),
        status     |-> Literal(Default("enum", "normal"), {"normal", "urgent"}),
        created_by |-> Optional("str"),
        seen_at    |-> Optional("datetime")]]

Place ==
    [name |-> <<"P","l","a","c","e">>,
     fields |->
       [name          |-> Required("str"),
        category      |-> Literal(Required("enum"),
                                  {"cat_cafe", "shelter", "colony", "event", "art"}),
        description   |-> MaxLength(Optional("str"), 600),
        lat           |-> Bounded(Required("float"), -90, 90),
        lng           |-> Bounded(Required("float"), -180, 180),
        address       |-> Optional("str"),
        opening_hours |-> Optional("str"),
        contact       |-> Optional("str"),
        website       |-> Optional("url"),
        rating        |-> Bounded(Optional("float"), 0, 5),
        rating_count  |-> Default("int", 0)]]

Post ==
    [name |-> <<"P","o","s","t">>,
     fields |->
       [author_id  |-> Optional("str"),
        text       |-> MaxLength(Required("str"), 1000),
        photo_url  |-> Optional("url"),
        tags       |-> Default("list", <<>>),
        lat        |-> Bounded(Optional("float"), -90, 90),
        lng        |-> Bounded(Optional("float"), -180, 180),
        miao_count |-> Default("int", 0)]]

Emergency ==
    [name |-> <<"E","m","e","r","g","e","n","c","y">>,
     fields |->
       [reporter_id |-> Optional("str"),
        lat         |-> Bounded(Required("float"), -90, 90),
        lng         |-> Bounded(Required("float"), -180, 180),
        description |-> MaxLength(Required("str"), 500),
        photo_url   |-> Optional("url"),
        status      |-> Literal(Default("enum", "open"),
                                {"open", "in_progress", "resolved"})]]

Report ==
    [name |-> <<"R","e","p","o","r","t">>,
     fields |->
       [reporter_id |-> Optional("str"),
        target_type |-> Literal(Required("enum"),
                                {"post", "cat", "place", "sighting"}),
        target_id   |-> Required("str"),
        reason      |-> Literal(Required("enum"),
                                {"spam", "offensive", "duplicate", "privacy", "other"}),
        note        |-> MaxLength(Optional("str"), 300)]]

Badge ==
    [name |-> <<"B","a","d","g","e">>,
     fields |->
       [code        |-> Required("str"),
        label       |-> Required("str"),
        description |-> Optional("str"),
        icon        |-> Optional("str")]]

Article ==
    [name |-> <<"A","r","t","i","c","l","e">>,
     fields |->
       [title     |-> Required("str"),
        body      |-> Required("str"),
        cover_url |-> Optional("url"),
        author    |-> Optional("str"),
        tags      |-> Default("list", <<>>)]]

\* main.py: the request body of POST /auth/signup.
SignupPayload ==
    [name |-> <<"S","i","g","n","u","p","P","a","y","l","o","a","d">>,
     fields |->
       [email      |-> Required("str"),
        nickname   |-> Required("str"),
        avatar_url |-> Optional("str")]]

Models == {User, Cat, Sighting, Place, Post, Emergency, Report, Badge, Article}

------------------------------------------------------------------------------
\* Validation of a decoded JSON object `raw` (a function from the keys that
\* are present to slots; a present key holding null is None) against a model
\* class: what BaseModel's constructor and FastAPI's body parsing do.

HttpScheme  == <<"h","t","t","p",":","/","/">>
HttpsScheme == <<"h","t","t","p","s",":","/","/">>

\* HttpUrl: an http or https scheme followed by a host.
IsHttpUrl(v) ==
    \/ Len(v) > Len(HttpScheme)  /\ SubSeq(v, 1, Len(HttpScheme)) = HttpScheme
    \/ Len(v) > Len(HttpsScheme) /\ SubSeq(v, 1, Len(HttpsScheme)) = HttpsScheme

\* Mutant: a float's upper bound is not enforced.
ConstraintsHold_NoUpperBound(fd, v) ==
    CASE fd.kind = "str"   -> fd.maxlen = None \/ Len(v) <= fd.maxlen[1]
      [] fd.kind = "float" -> fd.ge = None \/ v >= fd.ge[1]
      [] fd.kind = "enum"  -> v \in fd.vals
      [] fd.kind = "url"   -> IsHttpUrl(v)
      [] OTHER             -> TRUE

\* The constraints of one field on a value that is present and not null.
ConstraintsHold(fd, v) ==
    CASE fd.kind = "str"   -> fd.maxlen = None \/ Len(v) <= fd.maxlen[1]
      [] fd.kind = "float" -> /\ fd.ge = None \/ v >= fd.ge[1]
                              /\ fd.le = None \/ v <= fd.le[1]
      [] fd.kind = "enum"  -> v \in fd.vals
      [] fd.kind = "url"   -> IsHttpUrl(v)
      [] OTHER             -> TRUE

FieldValid(fd, raw, f) ==
    IF f \notin DOMAIN raw THEN ~fd.required
    ELSE IF raw[f] = None THEN fd.nullable
    ELSE ConstraintsHold(fd, raw[f][1])

IsValid(cls, raw) ==
    \A f \in DOMAIN cls.fields : FieldValid(cls.fields[f], raw, f)

\* The validated instance as a dict (model_dump): every declared field, the
\* default where the key is absent; keys the class does not declare are
\* dropped.  A value is kept as given (a URL is not normalised).
Instance(cls, raw) ==
    [f \in DOMAIN cls.fields |->
        IF f \in DOMAIN raw THEN raw[f] ELSE cls.fields[f].dflt]

------------------------------------------------------------------------------
\* main.py helpers.

\* Mutant: the class name is used as it is written.
collection_name_AsWritten(model_cls) == model_cls.name

collection_name(model_cls) == LowerStr(model_cls.name)

Collections == {collection_name(m) : m \in Models}

\* str() of a store identifier.
str(oid) == ToString(oid)

\* Mutant: "_id" is read, not popped.
to_public_KeepsInternalId(doc) ==
    IF DOMAIN doc = {} THEN doc
    ELSE IF "_id" \in DOMAIN doc
    THEN [k \in DOMAIN doc \cup {"id"} |->
             IF k = "id" THEN Some(str(doc["_id"][1])) ELSE doc[k]]
    ELSE doc

\* Mutant: "_id" is popped and never stored under "id".
to_public_DropsId(doc) ==
    IF DOMAIN doc = {} THEN doc
    ELSE [k \in DOMAIN doc \ {"_id"} |-> doc[k]]

\* The document with "_id" popped and its string stored under "id"; a
\* falsy (empty) document and a document without "_id" are returned as is.
to_public(doc) ==
    IF DOMAIN doc = {} THEN doc
    ELSE IF "_id" \in DOMAIN doc
    THEN [k \in (DOMAIN doc \ {"_id"}) \cup {"id"} |->
             IF k = "id" THEN Some(str(doc["_id"][1])) ELSE doc[k]]
    ELSE doc

\* Python truthiness of an optional string (None and "" are falsy).
Truthy(slot) == slot # None /\ Len(slot[1]) > 0

------------------------------------------------------------------------------
\* The document store.  A filter is a dict from a field name to a condition
\* (equality, a $gte/$lte range, a $regex), or from "$or" to a list of
\* such dicts.

Eq(v)            == [op |-> "eq", value |-> v]
Range(lo, hi)    == [op |-> "range", gte |-> lo, lte |-> hi]
Regex(pat, opts) == [op |-> "regex", pattern |-> pat, options |-> opts]
Or(clauses)      == [op |-> "or", clauses |-> clauses]

EmptyFilter == <<>>

\* Unanchored search of pattern in s, for patterns made of literal
\* characters and ".", which matches any one character; with option "i"
\* letters are compared without regard to case.
RegexSearch(pattern, options, s) ==
    \E i \in 1..(Len(s) - Len(pattern) + 1) :
        \A j \in 1..Len(pattern) :
            \/ pattern[j] = "."
            \/ IF options = "i"
               THEN LowerChar(pattern[j]) = LowerChar(s[i + j - 1])
               ELSE pattern[j] = s[i + j - 1]

MatchCond(doc, k, c) ==
    /\ k \in DOMAIN doc
    /\ doc[k] # None
    /\ CASE c.op = "eq"    -> doc[k][1] = c.value
         [] c.op = "range" -> c.gte <= doc[k][1] /\ doc[k][1] <= c.lte
         [] c.op = "regex" -> RegexSearch(c.pattern, c.options, doc[k][1])

MatchFlat(doc, filt) == \A k \in DOMAIN filt : MatchCond(doc, k, filt[k])

Matches(doc, filt) ==
    \A k \in DOMAIN filt :
        IF k = "$or"
        THEN \E i \in 1..Len(filt[k].clauses) : MatchFlat(doc, filt[k].clauses[i])
        ELSE MatchCond(doc, k, filt[k])

\* Every sequence of k distinct elements of S.
RECURSIVE Arrangements(_, _)
Arrangements(S, k) ==
    IF k = 0 THEN {<<>>}
    ELSE UNION {{<<x>> \o t : t \in Arrangements(S \ {x}, k - 1)} : x \in S}

Range1(seq) == {seq[i] : i \in 1..Len(seq)}

TotalDocs(store) ==
    LET RECURSIVE Sum(_)
        Sum(S) == IF S = {} THEN 0
                  ELSE LET c == CHOOSE c \in S : TRUE
                       IN  Len(store[c]) + Sum(S \ {c})
    IN  Sum(DOMAIN store)

\* create_document: the store after inserting data as a new document under
\* the fresh identifier oid.
create_document(store, coll, data, oid) ==
    [store EXCEPT ![coll] =
        Append(@, [k \in DOMAIN data \cup {"_id"} |->
                      IF k = "_id" THEN Some(oid) ELSE data[k]])]

\* get_documents: the possible results, up to `limit` of the matching
\* documents in an order the store chooses.
get_documents(store, coll, filt, limit) ==
    LET hits == {d \in Range1(store[coll]) : Matches(d, filt)}
    IN  Arrangements(hits, Min2(limit, Cardinality(hits)))

------------------------------------------------------------------------------
\* Query parameter `limit`: Query(default, ge=.., le=..).

Query(default, ge, le) == [default |-> default, ge |-> ge, le |-> le]

list_cats_limit        == Query(50, 1, 200)
list_sightings_limit   == Query(100, 1, 500)
list_places_limit      == Query(100, 1, 300)
list_posts_limit       == Query(50, 1, 200)
list_emergencies_limit == Query(50, 1, 200)
list_badges_limit      == Query(100, 1, 500)
list_articles_limit    == Query(50, 1, 200)

\* Mutant: le is not enforced.
LimitValid_NoUpperBound(decl, slot) == slot = None \/ decl.ge <= slot[1]

\* The parameter is absent (the default applies) or lies within ge..le.
LimitValid(decl, slot) ==
    slot = None \/ (decl.ge <= slot[1] /\ slot[1] <= decl.le)

LimitValue(decl, slot) == IF slot = None THEN decl.default ELSE slot[1]

------------------------------------------------------------------------------
\* The filters the list handlers build.

cats_filter(q) ==
    IF Truthy(q)
    THEN "$or" :> Or(<<[name |-> Regex(q[1], "i")],
                       [description |-> Regex(q[1], "i")]>>)
    ELSE EmptyFilter

\* Mutant: the corners are used in the order given.
sightings_filter_AsGiven(ne_lat, ne_lng, sw_lat, sw_lng, status) ==
    LET byStatus == IF Truthy(status) THEN [status |-> Eq(status[1])]
                    ELSE EmptyFilter
        bbox == IF None \notin {ne_lat, ne_lng, sw_lat, sw_lng}
                THEN [lat |-> Range(sw_lat[1], ne_lat[1]),
                      lng |-> Range(sw_lng[1], ne_lng[1])]
                ELSE EmptyFilter
    IN  bbox @@ byStatus

\* Mutant: a corner is present when it is truthy, so 0 is absent.
sightings_filter_TruthyCorners(ne_lat, ne_lng, sw_lat, sw_lng, status) ==
    LET byStatus == IF Truthy(status) THEN [status |-> Eq(status[1])]
                    ELSE EmptyFilter
        bbox == IF \A c \in {ne_lat, ne_lng, sw_lat, sw_lng} :
                      c # None /\ c[1] # 0
                THEN [lat |-> Range(Min2(sw_lat[1], ne_lat[1]),
                                    Max2(sw_lat[1], ne_lat[1])),
                      lng |-> Range(Min2(sw_lng[1], ne_lng[1]),
                                    Max2(sw_lng[1], ne_lng[1]))]
                ELSE EmptyFilter
    IN  bbox @@ byStatus

sightings_filter(ne_lat, ne_lng, sw_lat, sw_lng, status) ==
    LET byStatus == IF Truthy(status) THEN [status |-> Eq(status[1])]
                    ELSE EmptyFilter
        bbox == IF None \notin {ne_lat, ne_lng, sw_lat, sw_lng}
                THEN [lat |-> Range(Min2(sw_lat[1], ne_lat[1]),
                                    Max2(sw_lat[1], ne_lat[1])),
                      lng |-> Range(Min2(sw_lng[1], ne_lng[1]),
                                    Max2(sw_lng[1], ne_lng[1]))]
                ELSE EmptyFilter
    IN  bbox @@ byStatus

places_filter(category) ==
    IF Truthy(category) THEN [category |-> Eq(category[1])] ELSE EmptyFilter

emergencies_filter(status) ==
    IF Truthy(status) THEN [status |-> Eq(status[1])] ELSE EmptyFilter

\* Mutant: the avatar is not passed on, and accounts start inactive.
signup_data_Inactive(payload) ==
    [email      |-> payload.email,
     nickname   |-> payload.nickname,
     avatar_url |-> None,
     bio        |-> None,
     role       |-> Some("user"),
     points     |-> Some(0),
     badges     |-> Some(<<>>),
     is_active  |-> Some(FALSE)]

\* The User that signup builds from the payload.
signup_data(payload) ==
    [email      |-> payload.email,
     nickname   |-> payload.nickname,
     avatar_url |-> payload.avatar_url,
     bio        |-> None,
     role       |-> Some("user"),
     points     |-> Some(0),
     badges     |-> Some(<<>>),
     is_active  |-> Some(TRUE)]

------------------------------------------------------------------------------
\* Responses.  code 200: the handler returned; 422: the framework rejected
\* the request before the handler ran; 500: the handler raised.  queried
\* tells whether the handler ran a store query.

NoRequest     == [op |-> "none"]
NoResponse    == [code |-> 0, body |-> <<>>, queried |-> FALSE]
Created(oid)  == [code |-> 200, body |-> [id |-> str(oid)], queried |-> FALSE]
Listed(docs)  == [code |-> 200, queried |-> TRUE,
                  body |-> [i \in 1..Len(docs) |-> to_public(docs[i])]]
Unprocessable == [code |-> 422, body |-> <<>>, queried |-> FALSE]
ServerError   == [code |-> 500, body |-> <<>>, queried |-> FALSE]

\* A create handler `def create_x(x: Cls)`: the body is validated into Cls
\* before the handler runs, and the handler inserts it.
Create(op, cls, raw) ==
    /\ req = NoRequest
    /\ req' = [op |-> op, body |-> raw]
    /\ IF IsValid(cls, raw)
       THEN /\ TotalDocs(db) < MaxDocs
            /\ db' = create_document(db, collection_name(cls),
                                     Instance(cls, raw), nextOid)
            /\ nextOid' = nextOid + 1
            /\ resp' = Created(nextOid)
            /\ issued' = Append(issued, [op |-> op, data |-> Instance(cls, raw),
                                         id |-> str(nextOid)])
       ELSE /\ resp' = Unprocessable
            /\ UNCHANGED <<db, nextOid, issued>>

\* A list handler: limit is validated before the handler runs; the handler
\* queries the collection of cls with filt and publishes every document.
List(request, decl, cls, filt) ==
    /\ req = NoRequest
    /\ req' = request
    /\ UNCHANGED <<db, nextOid, issued>>
    /\ IF LimitValid(decl, request.limit)
       THEN \E docs \in get_documents(db, collection_name(cls), filt,
                                      LimitValue(decl, request.limit)) :
                resp' = Listed(docs)
       ELSE resp' = Unprocessable

\* signup: the body is validated into SignupPayload before the handler
\* runs; the handler constructs the User, which raises when the User's own
\* constraints reject the values, and inserts it.
signup(raw) ==
    /\ req = NoRequest
    /\ req' = [op |-> "signup", body |-> raw]
    /\ IF ~IsValid(SignupPayload, raw)
       THEN /\ resp' = Unprocessable
            /\ UNCHANGED <<db, nextOid, issued>>
       ELSE IF ~IsValid(User, signup_data(Instance(SignupPayload, raw)))
       THEN /\ resp' = ServerError
            /\ UNCHANGED <<db, nextOid, issued>>
       ELSE LET data == Instance(User, signup_data(Instance(SignupPayload, raw)))
            IN  /\ TotalDocs(db) < MaxDocs
                /\ db' = create_document(db, collection_name(User), data, nextOid)
                /\ nextOid' = nextOid + 1
                /\ resp' = Created(nextOid)
                /\ issued' = Append(issued, [op |-> "signup", data |-> data,
                                             id |-> str(nextOid)])

\* The response leaves the process: a request is a stateless unit of work,
\* and nothing of it remains but what it wrote to the store.
respond ==
    /\ req # NoRequest
    /\ req' = NoRequest
    /\ resp' = NoResponse
    /\ UNCHANGED <<db, nextOid, issued>>

create_cat(raw)       == Create("create_cat", Cat, raw)
create_sighting(raw)  == Create("create_sighting", Sighting, raw)
create_place(raw)     == Create("create_place", Place, raw)
create_post(raw)      == Create("create_post", Post, raw)
create_emergency(raw) == Create("create_emergency", Emergency, raw)
create_report(raw)    == Create("create_report", Report, raw)
create_badge(raw)     == Create("create_badge", Badge, raw)
create_article(raw)   == Create("create_article", Article, raw)

list_cats(q, limit) ==
    List([op |-> "list_cats", q |-> q, limit |-> limit],
         list_cats_limit, Cat, cats_filter(q))

list_sightings(ne_lat, ne_lng, sw_lat, sw_lng, limit, status) ==
    List([op |-> "list_sightings", ne_lat |-> ne_lat, ne_lng |-> ne_lng,
          sw_lat |-> sw_lat, sw_lng |-> sw_lng, limit |-> limit,
          status |-> status],
         list_sightings_limit, Sighting,
         sightings_filter(ne_lat, ne_lng, sw_lat, sw_lng, status))

list_places(category, limit) ==
    List([op |-> "list_places", category |-> category, limit |-> limit],
         list_places_limit, Place, places_filter(category))

list_posts(limit) ==
    List([op |-> "list_posts", limit |-> limit],
         list_posts_limit, Post, EmptyFilter)

list_emergencies(status, limit) ==
    List([op |-> "list_emergencies", status |-> status, limit |-> limit],
         list_emergencies_limit, Emergency, emergencies_filter(status))

list_badges(limit) ==
    List([op |-> "list_badges", limit |-> limit],
         list_badges_limit, Badge, EmptyFilter)

list_articles(limit) ==
    List([op |-> "list_articles", limit |-> limit],
         list_articles_limit, Article, EmptyFilter)

------------------------------------------------------------------------------
\* Request inputs.

Tom      == <<"T","o","m">>
Tabby    == <<"F","r","i","e","n","d","l","y"," ","t","a","b","b","y">>
Hello    == <<"h","i">>
Mail     == <<"a","@","b",".","c">>
GoodUrl  == HttpsScheme \o <<"c",".","d","/","p">>
BadUrl   == <<"p",".","p","n","g">>

LimitInputs(decl) ==
    {None, Some(decl.ge - 1), Some(decl.ge), Some(decl.le), Some(decl.le + 1)}

CatBodies ==
    {[name |-> Some(Tom), last_known_lat |-> Some(90), last_known_lng |-> Some(-180)],
     [description |-> Some(Tabby), status |-> Some("injured")],
     [name |-> Some(Tom), last_known_lat |-> Some(91)],
     [name |-> Some(Tom), last_known_lat |-> Some(-91)],
     [name |-> Some(Tom), last_known_lng |-> Some(181)],
     [name |-> Some(Tom), last_known_lng |-> Some(-181)],
     [name |-> Some(Tom), status |-> Some("lost")],
     [name |-> Some(Tom), status |-> None],
     [name |-> Some(Tom), description |-> Some(Rep("x", 501))],
     [name |-> Some(Tom), photo_url |-> Some(BadUrl)]}

SightingBodies ==
    {[lat |-> Some(-90), lng |-> Some(180)],
     [lat |-> Some(10), lng |-> Some(-5), status |-> Some("urgent")],
     [lat |-> Some(91), lng |-> Some(0)],
     [lat |-> Some(-91), lng |-> Some(0)],
     [lat |-> Some(0), lng |-> Some(181)],
     [lat |-> Some(0), lng |-> Some(-181)],
     [lat |-> Some(0), lng |-> Some(0), status |-> Some("lost")],
     [lat |-> Some(0), lng |-> Some(0), note |-> Some(Rep("x", 401))],
     [lng |-> Some(0)]}

PlaceBodies ==
    {[name |-> Some(Tom), category |-> Some("shelter"), lat |-> Some(0),
      lng |-> Some(0), rating |-> Some(5)],
     [name |-> Some(Tom), category |-> Some("cat_cafe"), lat |-> Some(90),
      lng |-> Some(-180), rating |-> Some(0), website |-> Some(GoodUrl)],
     [name |-> Some(Tom), category |-> Some("zoo"), lat |-> Some(0), lng |-> Some(0)],
     [name |-> Some(Tom), category |-> Some("art"), lat |-> Some(91), lng |-> Some(0)],
     [name |-> Some(Tom), category |-> Some("art"), lat |-> Some(0), lng |-> Some(-181)],
     [name |-> Some(Tom), category |-> Some("art"), lat |-> Some(0), lng |-> Some(0),
      rating |-> Some(6)],
     [name |-> Some(Tom), category |-> Some("art"), lat |-> Some(0), lng |-> Some(0),
      rating |-> Some(-1)],
     [category |-> Some("art"), lat |-> Some(0), lng |-> Some(0)]}

PostBodies ==
    {[text |-> Some(Hello), lat |-> Some(-90), lng |-> Some(180)],
     [text |-> Some(Rep("x", 1001))],
     [text |-> Some(Hello), lat |-> Some(-91)],
     [text |-> Some(Hello), lng |-> Some(181)],
     [author_id |-> Some(Tom)]}

EmergencyBodies ==
    {[lat |-> Some(0), lng |-> Some(0), description |-> Some(Hello)],
     [lat |-> Some(90), lng |-> Some(180), description |-> Some(Hello),
      status |-> Some("resolved")],
     [lat |-> Some(0), lng |-> Some(0), description |-> Some(Hello),
      status |-> Some("closed")],
     [lat |-> Some(91), lng |-> Some(0), description |-> Some(Hello)],
     [lat |-> Some(0), lng |-> Some(181), description |-> Some(Hello)],
     [lat |-> Some(0), lng |-> Some(0), description |-> Some(Rep("x", 501))],
     [lat |-> Some(0), lng |-> Some(0)]}

ReportBodies ==
    {[target_type |-> Some("post"), target_id |-> Some(Tom), reason |-> Some("spam")],
     [target_type |-> Some("user"), target_id |-> Some(Tom), reason |-> Some("spam")],
     [target_type |-> Some("cat"), target_id |-> Some(Tom), reason |-> Some("boring")],
     [target_type |-> Some("cat"), target_id |-> Some(Tom), reason |-> Some("other"),
      note |-> Some(Rep("x", 301))],
     [target_type |-> Some("cat"), reason |-> Some("other")]}

BadgeBodies ==
    {[code |-> Some(Tom), label |-> Some(Hello)],
     [code |-> Some(Tom)],
     [code |-> None, label |-> Some(Hello)]}

ArticleBodies ==
    {[title |-> Some(Tom), body |-> Some(Hello)],
     [title |-> Some(Tom)],
     [title |-> Some(Tom), body |-> Some(Hello), cover_url |-> Some(BadUrl)]}

SignupBodies ==
    {[email |-> Some(Mail), nickname |-> Some(Rep("n", 40))],
     [email |-> Some(Mail), nickname |-> Some(Tom), avatar_url |-> Some(GoodUrl),
      role |-> Some("admin"), points |-> Some(99), badges |-> Some(<<Tom>>),
      is_active |-> Some(FALSE), bio |-> Some(Hello)],
     [nickname |-> Some(Tom)],
     [email |-> Some(Mail)],
     [email |-> None, nickname |-> Some(Tom)],
     [email |-> Some(Mail), nickname |-> Some(Rep("n", 41))],
     [email |-> Some(Mail), nickname |-> Some(Tom), avatar_url |-> Some(BadUrl)]}

CatQueries      == {None, Some(<<>>), Some(<<"t","o","m">>),
                    Some(<<"T","A","B","B","Y">>), Some(<<"t","a","b","b","y">>),
                    Some(<<"m","y">>), Some(<<".">>), Some(<<"T",".","m">>)}
Corners         == {<<None, None, None, None>>,
                    <<Some(10), Some(10), Some(-5), Some(-5)>>,
                    <<Some(-5), Some(-5), Some(10), Some(10)>>}
SightingStatus  == {None, Some("urgent")}
PlaceCategories == {None, Some(""), Some("shelter"), Some("zoo")}
EmergencyStatus == {None, Some("open"), Some("resolved")}

------------------------------------------------------------------------------
\* The state after startup: nine empty collections, no request served.

Init ==
    /\ db = [c \in Collections |-> <<>>]
    /\ nextOid = 1
    /\ req = NoRequest
    /\ resp = NoResponse
    /\ issued = <<>>

Idle == req = NoRequest

\* Requests are served one at a time.
Next ==
    \/ Idle /\ \E raw \in SignupBodies : signup(raw)
    \/ Idle /\ \E raw \in CatBodies : create_cat(raw)
    \/ Idle /\ \E q \in CatQueries, limit \in LimitInputs(list_cats_limit) :
          list_cats(q, limit)
    \/ Idle /\ \E raw \in SightingBodies : create_sighting(raw)
    \/ Idle /\ \E c \in Corners, limit \in LimitInputs(list_sightings_limit),
          status \in SightingStatus :
          list_sightings(c[1], c[2], c[3], c[4], limit, status)
    \/ Idle /\ \E raw \in PlaceBodies : create_place(raw)
    \/ Idle /\ \E category \in PlaceCategories, limit \in LimitInputs(list_places_limit) :
          list_places(category, limit)
    \/ Idle /\ \E raw \in PostBodies : create_post(raw)
    \/ Idle /\ \E limit \in LimitInputs(list_posts_limit) : list_posts(limit)
    \/ Idle /\ \E raw \in EmergencyBodies : create_emergency(raw)
    \/ Idle /\ \E status \in EmergencyStatus, limit \in LimitInputs(list_emergencies_limit) :
          list_emergencies(status, limit)
    \/ Idle /\ \E raw \in ReportBodies : create_report(raw)
    \/ Idle /\ \E limit \in LimitInputs(list_badges_limit) : list_badges(limit)
    \/ Idle /\ \E raw \in BadgeBodies : create_badge(raw)
    \/ Idle /\ \E limit \in LimitInputs(list_articles_limit) : list_articles(limit)
    \/ Idle /\ \E raw \in ArticleBodies : create_article(raw)
    \/ respond

Spec == Init /\ [][Next]_vars

------------------------------------------------------------------------------
\* The sightings endpoints alone, over every combination of corner values.

CornerValues == {None, Some(0), Some(-5), Some(10)}

GeoSightingBodies ==
    {[lat |-> Some(0), lng |-> Some(0)],
     [lat |-> Some(10), lng |-> Some(-5), status |-> Some("urgent")],
     [lat |-> Some(-5), lng |-> Some(10)],
     [lat |-> Some(3), lng |-> Some(12), status |-> Some("urgent")],
     [lat |-> Some(91), lng |-> Some(0)]}

GeoStatus == {None, Some(""), Some("urgent"), Some("lost")}

NextSightings ==
    \/ Idle /\ \E raw \in GeoSightingBodies : create_sighting(raw)
    \/ Idle /\ \E ne_lat \in CornerValues, ne_lng \in CornerValues,
          sw_lat \in CornerValues, sw_lng \in CornerValues,
          limit \in {None, Some(0), Some(1)}, status \in GeoStatus :
          list_sightings(ne_lat, ne_lng, sw_lat, sw_lng, limit, status)
    \/ respond

SpecSightings == Init /\ [][NextSightings]_vars

------------------------------------------------------------------------------
\* Vocabulary of the properties.

CreateOps == {"create_cat", "create_sighting", "create_place", "create_post",
              "create_emergency", "create_report", "create_badge",
              "create_article"}

ListOps == {"list_cats", "list_sightings", "list_places", "list_posts",
            "list_emergencies", "list_badges", "list_articles"}

\* The resource type an endpoint serves.
ResourceOf(op) ==
    CASE op = "signup"                               -> User
      [] op \in {"create_cat", "list_cats"}             -> Cat
      [] op \in {"create_sighting", "list_sightings"}   -> Sighting
      [] op \in {"create_place", "list_places"}         -> Place
      [] op \in {"create_post", "list_posts"}           -> Post
      [] op \in {"create_emergency", "list_emergencies"} -> Emergency
      [] op = "create_report"                           -> Report
      [] op \in {"create_badge", "list_badges"}         -> Badge
      [] op \in {"create_article", "list_articles"}     -> Article

\* The lowercase type names, written out.
LowercaseName(op) ==
    CASE ResourceOf(op) = User      -> <<"u","s","e","r">>
      [] ResourceOf(op) = Cat       -> <<"c","a","t">>
      [] ResourceOf(op) = Sighting  -> <<"s","i","g","h","t","i","n","g">>
      [] ResourceOf(op) = Place     -> <<"p","l","a","c","e">>
      [] ResourceOf(op) = Post      -> <<"p","o","s","t">>
      [] ResourceOf(op) = Emergency -> <<"e","m","e","r","g","e","n","c","y">>
      [] ResourceOf(op) = Report    -> <<"r","e","p","o","r","t">>
      [] ResourceOf(op) = Badge     -> <<"b","a","d","g","e">>
      [] ResourceOf(op) = Article   -> <<"a","r","t","i","c","l","e">>

\* A step in which a handler serves a request.
Serves(ops) == req = NoRequest /\ req'.op \in ops

Outside(slot, lo, hi) == slot # None /\ (slot[1] < lo \/ slot[1] > hi)

\* A body with a latitude, longitude or rating outside its range.
OutOfRange(raw) ==
    \E f \in DOMAIN raw :
        \/ f \in {"lat", "last_known_lat"} /\ Outside(raw[f], -90, 90)
        \/ f \in {"lng", "last_known_lng"} /\ Outside(raw[f], -180, 180)
        \/ f = "rating" /\ Outside(raw[f], 0, 5)

\* A body with an enum field holding a value outside the declared set.
OutsideEnum(cls, raw) ==
    \E f \in DOMAIN raw \cap DOMAIN cls.fields :
        /\ cls.fields[f].kind = "enum"
        /\ raw[f] # None
        /\ raw[f][1] \notin cls.fields[f].vals

\* C1: on every create endpoint, a body with a bounded numeric field out of
\* range or an enum field outside its declared set is rejected, and the
\* store is left exactly as it was.
C1_InvalidCreateRejected ==
    [][(/\ Serves(CreateOps)
        /\ OutOfRange(req'.body) \/ OutsideEnum(ResourceOf(req'.op), req'.body))
       => (resp'.code = 422 /\ db' = db)]_vars

\* An out-of-range create was rejected while the store held documents.
C1_Witness ==
    /\ req.op = "create_place"
    /\ OutOfRange(req.body)
    /\ resp.code = 422
    /\ TotalDocs(db) = MaxDocs

\* C3: every create entry point, signup included, answers input that fails
\* the resource's schema with a client-input error, not a server error, and
\* persists no document.
C3_SchemaFailureIsClientError ==
    [][(/\ Serves(CreateOps \cup {"signup"})
        /\ ~IsValid(ResourceOf(req'.op), req'.body))
       => (resp'.code = 422 /\ db' = db)]_vars

\* The value a body gives for key f (None when the key is absent).
Given(raw, f) == IF f \in DOMAIN raw THEN raw[f] ELSE None

Last(seq) == seq[Len(seq)]

\* The step appends exactly one document to collection c and changes no
\* other collection.
AddsOneTo(c) ==
    /\ Len(db'[c]) = Len(db[c]) + 1
    /\ SubSeq(db'[c], 1, Len(db[c])) = db[c]
    /\ \A o \in DOMAIN db : o # c => db'[o] = db[o]

\* C4: every successful signup persists exactly one User document whose
\* role is "user", points 0, badges empty and is_active true whatever the
\* caller supplied for them; email, nickname and avatar_url are the only
\* fields of the stored User the caller controls.
C4_SignupFixesFields ==
    [][(Serves({"signup"}) /\ resp'.code = 200)
       => /\ AddsOneTo(<<"u","s","e","r">>)
          /\ LET u == Last(db'[<<"u","s","e","r">>])
             IN  /\ DOMAIN u = DOMAIN User.fields \cup {"_id"}
                 /\ u.role = Some("user")
                 /\ u.points = Some(0)
                 /\ u.badges = Some(<<>>)
                 /\ u.is_active = Some(TRUE)
                 /\ u.bio = None
                 /\ u.email = req'.body.email
                 /\ u.nickname = req'.body.nickname
                 /\ u.avatar_url = None <=> Given(req'.body, "avatar_url") = None]_vars

\* A signup that asked for role admin, 99 points, a badge and an inactive
\* account succeeded.
C4_Witness ==
    /\ req.op = "signup"
    /\ resp.code = 200
    /\ Given(req.body, "role") = Some("admin")
    /\ Given(req.body, "points") = Some(99)
    /\ Given(req.body, "avatar_url") # None
    /\ Len(db[<<"u","s","e","r">>]) > 0
    /\ Last(db[<<"u","s","e","r">>]).role = Some("user")

\* The declared limit bounds of the list endpoints.
DeclaredLimits(op) ==
    CASE op \in {"list_cats", "list_posts", "list_emergencies", "list_articles"}
              -> <<1, 200>>
      [] op = "list_places" -> <<1, 300>>
      [] op \in {"list_sightings", "list_badges"} -> <<1, 500>>

\* The filter the handler of a list request builds.
FilterOf(r) ==
    CASE r.op = "list_cats"        -> cats_filter(r.q)
      [] r.op = "list_sightings"   -> sightings_filter(r.ne_lat, r.ne_lng,
                                          r.sw_lat, r.sw_lng, r.status)
      [] r.op = "list_places"      -> places_filter(r.category)
      [] r.op = "list_emergencies" -> emergencies_filter(r.status)
      [] OTHER                     -> EmptyFilter

Stored(op) == Range1(db[LowercaseName(op)])

Matching(r) == {d \in Stored(r.op) : Matches(d, FilterOf(r))}

\* C5: a list request whose limit lies outside the resource's declared
\* bounds is rejected before any query is executed; one whose limit lies
\* inside succeeds and returns exactly min(limit, number of matching
\* documents) records.
C5_LimitBounds ==
    (req.op \in ListOps /\ req.limit # None)
    => LET b == DeclaredLimits(req.op)
           n == req.limit[1]
       IN  IF n < b[1] \/ n > b[2]
           THEN resp.code = 422 /\ ~resp.queried
           ELSE /\ resp.code = 200
                /\ Len(resp.body) = Min2(n, Cardinality(Matching(req)))

\* A limit of 1 cut a result of two matching cats down to one record.
C5_Witness ==
    /\ req.op = "list_cats"
    /\ req.limit = Some(1)
    /\ Cardinality(Matching(req)) = 2
    /\ resp.code = 200
    /\ Len(resp.body) = 1

\* The records of a response, as a set.
Records == Range1(resp.body)

\* C6: after any sequence of operations, a cat created earlier is returned
\* by an unfiltered list whose limit is not below the collection size, with
\* fields equal to the created input, under the id its create returned; that
\* id is a non-empty string no earlier create returned.
C6_CreatedCatIsListed ==
    (/\ req.op = "list_cats"
     /\ req.q = None
     /\ resp.code = 200
     /\ LimitValue(list_cats_limit, req.limit) >= Len(db[<<"c","a","t">>]))
    => \A i \in 1..Len(issued) :
          /\ issued[i].id # ""
          /\ \A j \in 1..(i - 1) : issued[j].id # issued[i].id
          /\ issued[i].op = "create_cat"
             => \E r \in Records :
                   /\ r = [k \in DOMAIN Cat.fields \cup {"id"} |->
                             IF k = "id" THEN Some(issued[i].id)
                             ELSE issued[i].data[k]]

\* Two cats were created after another create, and an unfiltered list
\* returned both.
C6_Witness ==
    /\ req.op = "list_cats"
    /\ req.q = None
    /\ resp.code = 200
    /\ Len(issued) = MaxDocs
    /\ issued[1].op = "create_cat"
    /\ issued[Len(issued)].op = "create_cat"
    /\ issued[1].data.name = Some(Tom)
    /\ Cardinality(Records) = Len(db[<<"c","a","t">>])

\* C7: every document created earlier stays in its collection unchanged; a
\* successful create adds exactly one document to the collection named by
\* the lowercase name of its own resource type (the nine names are pairwise
\* distinct) and changes no other collection; a list request or a rejected
\* create changes no collection.
C7_CreateFrame ==
    [][IF Serves(CreateOps \cup {"signup"}) /\ resp'.code = 200
       THEN /\ collection_name(ResourceOf(req'.op)) = LowercaseName(req'.op)
            /\ Cardinality(DOMAIN db) = 9
            /\ AddsOneTo(LowercaseName(req'.op))
       ELSE db' = db]_vars

\* A place was created into a store that already held another resource's
\* document.
C7_Witness ==
    /\ req.op = "create_place"
    /\ resp.code = 200
    /\ Len(db[<<"p","l","a","c","e">>]) = 1
    /\ Len(db[<<"p","o","s","t">>]) = 1

\* Containment of q in s as a substring, letter case ignored.
ContainsIgnoringCase(s, q) ==
    \E i \in 1..(Len(s) - Len(q) + 1) :
        \A j \in 1..Len(q) : LowerChar(s[i + j - 1]) = LowerChar(q[j])

\* C8: for a non-empty q, the cats list selects exactly the cats whose name
\* or description contains q as a substring when letter case is ignored.
C8_SubstringSearch ==
    (/\ req.op = "list_cats"
     /\ Truthy(req.q)
     /\ resp.code = 200
     /\ LimitValue(list_cats_limit, req.limit) >= Len(db[<<"c","a","t">>]))
    => {r.id[1] : r \in Records}
       = {str(d["_id"][1]) :
            d \in {c \in Stored("list_cats") :
                     \/ c.name # None /\ ContainsIgnoringCase(c.name[1], req.q[1])
                     \/ /\ c.description # None
                        /\ ContainsIgnoringCase(c.description[1], req.q[1])}}

\* C9: every record a list endpoint returns carries the store-assigned
\* identifier as a string under id, has no field _id, and its other fields
\* are those of the stored document.
C9_PublicRecords ==
    (req.op \in ListOps /\ resp.code = 200)
    => \A r \in Records :
          /\ "id" \in DOMAIN r
          /\ "_id" \notin DOMAIN r
          /\ \E d \in Stored(req.op) :
                /\ r.id = Some(str(d["_id"][1]))
                /\ DOMAIN r \ {"id"} = DOMAIN d \ {"_id"}
                /\ \A k \in DOMAIN r \ {"id"} : r[k] = d[k]

\* A list returned two records.
C9_Witness ==
    /\ req.op = "list_emergencies"
    /\ resp.code = 200
    /\ Cardinality(Records) = 2

\* The sightings a filter selects from the store.
Selected(filt) == {d \in Stored("list_sightings") : Matches(d, filt)}

Ids(docs) == {str(d["_id"][1]) : d \in docs}

Between(x, a, b) ==
    (IF a <= b THEN a ELSE b) <= x /\ x <= (IF a <= b THEN b ELSE a)

\* The status of a request selects sighting d: no status is given (the
\* parameter is absent or empty), or d has that status.
StatusSelects(r, d) ==
    (r.status # None /\ r.status[1] # "") => d.status = r.status

AllCorners(r) ==
    r.ne_lat # None /\ r.ne_lng # None /\ r.sw_lat # None /\ r.sw_lng # None

InBox(r, d) ==
    /\ Between(d.lat[1], r.sw_lat[1], r.ne_lat[1])
    /\ Between(d.lng[1], r.sw_lng[1], r.ne_lng[1])

\* What a sightings list returns is among `expected`, and is all of it when
\* the limit is not below the number of sightings stored.
Returns(expected) ==
    /\ {r.id[1] : r \in Records} \subseteq Ids(expected)
    /\ LimitValue(list_sightings_limit, req.limit) >= Cardinality(Stored(req.op))
       => {r.id[1] : r \in Records} = Ids(expected)

\* C2: with four corners, the call and the call with the ne and sw corners
\* swapped select the same sightings: exactly those with
\* min(sw_lat, ne_lat) <= lat <= max(sw_lat, ne_lat) and
\* min(sw_lng, ne_lng) <= lng <= max(sw_lng, ne_lng), and of the given
\* status when one is given.
C2_BoundingBoxNormalized ==
    (req.op = "list_sightings" /\ AllCorners(req) /\ resp.code = 200)
    => LET expected == {d \in Stored(req.op) :
                           InBox(req, d) /\ StatusSelects(req, d)}
       IN  /\ Selected(sightings_filter(req.ne_lat, req.ne_lng,
                                        req.sw_lat, req.sw_lng, req.status))
              = expected
           /\ Selected(sightings_filter(req.sw_lat, req.sw_lng,
                                        req.ne_lat, req.ne_lng, req.status))
              = expected
           /\ Returns(expected)

\* Corners given in the other diagonal order (ne below and left of sw)
\* selected one sighting and left another out.
C2_Witness ==
    /\ req.op = "list_sightings"
    /\ AllCorners(req)
    /\ req.ne_lat[1] < req.sw_lat[1]
    /\ req.ne_lng[1] < req.sw_lng[1]
    /\ resp.code = 200
    /\ Cardinality(Records) = 1
    /\ Cardinality(Stored(req.op)) = 2

\* C10: the sightings list restricts by latitude and longitude exactly when
\* all four corners are supplied, 0 counting as supplied; with one, two or
\* three corners the request is not rejected and returns what it returns
\* with no corner at all; a given status is combined with the box as a
\* conjunction.
C10_BoxNeedsAllCorners ==
    (req.op = "list_sightings"
       /\ LimitValid(list_sightings_limit, req.limit))
    => /\ resp.code = 200
       /\ Returns({d \in Stored(req.op) :
                      /\ AllCorners(req) => InBox(req, d)
                      /\ StatusSelects(req, d)})
       /\ ~AllCorners(req)
          => Selected(FilterOf(req))
             = Selected(sightings_filter(None, None, None, None, req.status))

\* Three corners, all 0, were supplied and a sighting away from (0, 0) was
\* returned.
C10_Witness ==
    /\ req.op = "list_sightings"
    /\ req.ne_lat = Some(0) /\ req.ne_lng = Some(0) /\ req.sw_lat = Some(0)
    /\ req.sw_lng = None
    /\ resp.code = 200
    /\ \E r \in Records : r.lat # Some(0)

\* Four corners, all 0, and a status were supplied; the urgent sighting away
\* from (0, 0) was left out.
C10_WitnessZeroBox ==
    /\ req.op = "list_sightings"
    /\ req.ne_lat = Some(0) /\ req.ne_lng = Some(0)
    /\ req.sw_lat = Some(0) /\ req.sw_lng = Some(0)
    /\ resp.code = 200
    /\ Records = {}
    /\ \E d \in Stored(req.op) : d.lat # Some(0)

====
